---- MODULE Spec2Model ----
(***************************************************************************)
(* Model of the identity-card batch service:                               *)
(*   - BaiduOcrService (api/services/baiduOcr.ts): field validators, the   *)
(*     retry loops of recognizeIdCardFront / recognizeIdCardBack, the      *)
(*     keyword scan and smartRecognizeIdCard;                              *)
(*   - POST /process-files and processFolderFiles (api/routes/             *)
(*     batchFiles.ts): the unit loop, front/back selection, the summary.   *)
(*                                                                         *)
(* Text is modelled as a sequence of fragments: field values are sequences *)
(* of single characters, messages are sequences of the pieces the template *)
(* strings are built from.  A Chinese character is written as its pinyin   *)
(* ("nan", "nv" are the two gender labels, "chang" "qi" is the long-term   *)
(* token of a valid period), the em dash as "emdash".                      *)
(***************************************************************************)
EXTENDS Integers, Sequences, FiniteSets, TLC

(* ----------------------------------------------------------------------- *)
(* Bounds of the model                                                     *)
(* ----------------------------------------------------------------------- *)

\* largest number of units in one batch request
MaxUnits == 2

\* largest number of uploaded files in one unit
MaxFiles == 2

\* largest number of uploaded files in a request that is grouped by file name
MaxUploads == 3

\* largest number of images in the unit whose selection is examined
MaxImages == 3

(* ----------------------------------------------------------------------- *)
(* Strings                                                                 *)
(* ----------------------------------------------------------------------- *)

Digits == {"0", "1", "2", "3", "4", "5", "6", "7", "8", "9"}

\* the characters matched by \s that occur in the inputs
Whitespace == {" ", "\t", "\n"}

\* n copies of the character c
Rep(c, n) == [i \in 1..n |-> c]

\* String.prototype.includes
Includes(s, sub) ==
  \E i \in 0..(Len(s) - Len(sub)) : SubSeq(s, i + 1, i + Len(sub)) = sub

\* String.prototype.replace(/\s/g, '')
StripWs(s) == SelectSeq(s, LAMBDA c : c \notin Whitespace)

\* String.prototype.trim
Trim(s) ==
  LET keep == {i \in 1..Len(s) : s[i] \notin Whitespace}
  IN  IF keep = {} THEN <<>>
      ELSE LET lo == CHOOSE i \in keep : \A j \in keep : i <= j
               hi == CHOOSE i \in keep : \A j \in keep : i >= j
           IN  SubSeq(s, lo, hi)

\* RegExp.prototype.test for an unanchored pattern given as a sequence of
\* atoms; an atom is the set of fragments it accepts at one position
RegexTest(pat, s) ==
  \E i \in 0..(Len(s) - Len(pat)) :
    \A k \in 1..Len(pat) : s[i + k] \in pat[k]

\* the id number pattern without the check letter
IdNumberRegexNoX(s) ==
  /\ Len(s) = 18
  /\ \A i \in 1..18 : s[i] \in Digits

\* /^\d{17}[\dXx]$/
IdNumberRegex(s) ==
  /\ Len(s) = 18
  /\ \A i \in 1..17 : s[i] \in Digits
  /\ s[18] \in Digits \cup {"X", "x"}

(* ----------------------------------------------------------------------- *)
(* validateIdCardFrontInfo                                                 *)
(* ----------------------------------------------------------------------- *)

Step(cond, pts, okLine, failLine) ==
  [pts |-> IF cond THEN pts ELSE 0,
   lines |-> IF cond THEN okLine ELSE failLine]

\* a pass mark above what the three required fields give
frontPassScoreHigh == 60 + 20

\* const isValid = score >= 60
frontPassScore == 60

validateIdCardFrontInfo(idCardInfo) ==
  LET name     == Step(idCardInfo.name # <<>> /\ Len(Trim(idCardInfo.name)) >= 2,
                       30, << <<"pass", "name">> >>, << <<"fail", "name">> >>)
      idNumber == Step(idCardInfo.idNumber # <<>>
                         /\ IdNumberRegex(StripWs(idCardInfo.idNumber)),
                       30, << <<"pass", "idNumber">> >>, << <<"fail", "idNumber">> >>)
      gender   == Step(idCardInfo.gender # <<>> /\ idCardInfo.gender \in {<<"nan">>, <<"nv">>},
                       15, << <<"pass", "gender">> >>, << <<"fail", "gender">> >>)
      nation   == Step(idCardInfo.nation # <<>> /\ Len(Trim(idCardInfo.nation)) > 0,
                       10, << <<"pass", "nation">> >>, <<>>)
      birthday == Step(idCardInfo.birthday # <<>> /\ Len(Trim(idCardInfo.birthday)) > 0,
                       10, << <<"pass", "birthday">> >>, <<>>)
      address  == Step(idCardInfo.address # <<>> /\ Len(Trim(idCardInfo.address)) > 0,
                       5, << <<"pass", "address">> >>, <<>>)
      score    == name.pts + idNumber.pts + gender.pts
                    + nation.pts + birthday.pts + address.pts
  IN  [isValid |-> score >= frontPassScore,
       score   |-> score,
       details |-> name.lines \o idNumber.lines \o gender.lines
                     \o nation.lines \o birthday.lines \o address.lines]

(* ----------------------------------------------------------------------- *)
(* detectIdCardBackKeywords                                                *)
(* ----------------------------------------------------------------------- *)

\* const keywords: the two marker phrases (People's Republic of China,
\* Resident Identity Card), each one fragment
keywords == << <<"ZhonghuaRenminGongheguo">>, <<"JuminShenfenzheng">> >>

\* general: the outcome of recognizeGeneral, [ok, texts]; texts is the list of
\* recognized lines joined with ' ', a sequence of fragments
detectIdCardBackKeywords(general) ==
  IF general.ok
  THEN LET detected == SelectSeq(keywords, LAMBDA k : Includes(general.texts, k))
       IN  [hasKeywords      |-> Len(detected) > 0,
            detectedKeywords |-> detected,
            details |-> [i \in 1..Len(detected) |-> <<"pass", "keyword">>]
                          \o (IF Len(detected) > 0
                              THEN << <<"pass", "backVerdict">> >>
                              ELSE << <<"fail", "backVerdict">> >>)]
  ELSE [hasKeywords      |-> FALSE,
        detectedKeywords |-> <<>>,
        details          |-> << <<"fail", "keywordScan">> >>]

(* ----------------------------------------------------------------------- *)
(* validateIdCardBackInfo                                                  *)
(* ----------------------------------------------------------------------- *)

authorityKeywords ==
  { <<"gong", "an", "ju">>, <<"pai", "chu", "suo">>, <<"fen", "ju">>,
    <<"gong", "an", "fen", "ju">>, <<"gong", "an", "ting">>, <<"gong", "an", "bu">> }

Dash == {"-", "emdash"}

DottedDate ==
  <<Digits, Digits, Digits, Digits, {"."}, Digits, Digits, {"."}, Digits, Digits>>

PlainDate == [i \in 1..8 |-> Digits]

LongTerm == <<{"chang"}, {"qi"}>>

validPeriodPatterns ==
  { DottedDate \o <<Dash>> \o DottedDate,
    DottedDate \o <<Dash>> \o LongTerm,
    PlainDate \o <<Dash>> \o PlainDate,
    PlainDate \o <<Dash>> \o LongTerm,
    LongTerm }

\* the authority points without the test for a known authority name
authorityPointsAnyText(hasAuth, hasValidKeyword) ==
  IF ~hasAuth THEN 0 ELSE 30

\* score += 30 / score += 10 in the issuing authority block
authorityPoints(hasAuth, hasValidKeyword) ==
  IF ~hasAuth THEN 0 ELSE IF hasValidKeyword THEN 30 ELSE 10

\* keywordDetection is always supplied by the callers of this service
validateIdCardBackInfo(backInfo, keywordDetection) ==
  LET kwPts   == IF keywordDetection.hasKeywords THEN 80 ELSE 0
      kwLines == keywordDetection.details
                   \o (IF keywordDetection.hasKeywords
                       THEN << <<"pass", "keywordVerdict">> >>
                       ELSE << <<"partial", "keywordVerdict">> >>)
      hasAuth == backInfo.issueAuthority # <<>>
                   /\ Len(Trim(backInfo.issueAuthority)) > 0
      hasValidKeyword ==
        \E k \in authorityKeywords : Includes(backInfo.issueAuthority, k)
      authPts == authorityPoints(hasAuth, hasValidKeyword)
      authLine == IF ~hasAuth THEN <<"fail", "issueAuthority">>
                  ELSE IF hasValidKeyword THEN <<"pass", "issueAuthority">>
                  ELSE <<"partial", "issueAuthority">>
      hasPeriod == backInfo.validPeriod # <<>>
                     /\ Len(Trim(backInfo.validPeriod)) > 0
      hasValidFormat ==
        \E p \in validPeriodPatterns : RegexTest(p, backInfo.validPeriod)
      periodPts == IF ~hasPeriod THEN 0 ELSE IF hasValidFormat THEN 20 ELSE 10
      periodLine == IF ~hasPeriod THEN <<"fail", "validPeriod">>
                    ELSE IF hasValidFormat THEN <<"pass", "validPeriod">>
                    ELSE <<"partial", "validPeriod">>
      score == kwPts + authPts + periodPts
      requiredScore == IF keywordDetection.hasKeywords THEN 80 ELSE 70
  IN  [isValid |-> score >= requiredScore,
       score   |-> score,
       details |-> kwLines \o <<authLine, periodLine>>]

\* recommendedSide without the branch for equal scores
recommendedSideNoTie(frontScore, backScore) ==
  IF frontScore > backScore /\ frontScore >= 60 THEN "front"
  ELSE IF backScore > frontScore /\ backScore >= 70 THEN "back"
  ELSE "unknown"

\* recommendedSide with the back threshold at 50
recommendedSideBackAt50(frontScore, backScore) ==
  IF frontScore > backScore /\ frontScore >= 60 THEN "front"
  ELSE IF backScore > frontScore /\ backScore >= 50 THEN "back"
  ELSE IF frontScore = backScore /\ frontScore > 0 THEN "front"
  ELSE "unknown"

\* the decision at the end of smartRecognizeIdCard
recommendedSide(frontScore, backScore) ==
  IF frontScore > backScore /\ frontScore >= 60 THEN "front"
  ELSE IF backScore > frontScore /\ backScore >= 70 THEN "back"
  ELSE IF frontScore = backScore /\ frontScore > 0 THEN "front"
  ELSE "unknown"

(* ----------------------------------------------------------------------- *)
(* The recognition provider                                                *)
(* ----------------------------------------------------------------------- *)

ValidId == Rep("1", 17) \o <<"X">>

\* a front side read in full, and one read without its birthday
FrontReadings ==
  { [name |-> <<"Li", "Lei">>, idNumber |-> ValidId, gender |-> <<"nan">>,
     nation |-> <<"han">>, birthday |-> b, address |-> <<"addr">>] :
      b \in {<<>>, <<"1", "9", "9", "0">>} }

\* words_result of a successful idcard(front) answer
FrontWordsSet ==
  [name     : {<<>>, <<"Li", "Lei">>},
   idNumber : {<<>>, ValidId},
   gender   : {<<>>, <<"nan">>},
   nation   : {<<>>},
   birthday : {<<>>},
   address  : {<<>>}]
    \cup FrontReadings

\* words_result of a successful idcard(back) answer
BackWordsSet ==
  [issueAuthority : {<<>>, <<"X", "bureau">>, <<"X", "gong", "an", "ju">>},
   validPeriod    : {<<>>, <<"2", "0", "3", "0">>, <<"chang", "qi">>}]

Answer(kind, msg, code, isError, words) ==
  [kind |-> kind, msg |-> msg, code |-> code, isError |-> isError, words |-> words]

\* the ways the provider's idcard operation fails: an error code with an
\* IAM message, an error code for an unusable image, a rejected promise
\* carrying an Error, a rejected promise carrying some other value
IdcardFailures ==
  { Answer("errcode", <<"IAM", " Certification failed">>, "14", FALSE, <<>>),
    Answer("errcode", <<"image format error">>, "216201", FALSE, <<>>),
    Answer("throw", <<"connect ETIMEDOUT">>, "", TRUE, <<>>),
    Answer("throw", <<>>, "", FALSE, <<>>) }

IdcardAnswers(s) ==
  IdcardFailures \cup
    { Answer("ok", <<>>, "", FALSE, w) :
        w \in IF s = "front" THEN FrontWordsSet ELSE BackWordsSet }

\* outcomes of recognizeGeneral: a failure, or the recognized text
GeneralAnswers ==
  { [ok |-> FALSE, texts |-> <<>>],
    [ok |-> TRUE,  texts |-> <<"some", " ", "text">>],
    [ok |-> TRUE,  texts |-> <<"JuminShenfenzheng">>],
    [ok |-> TRUE,  texts |-> <<"ZhonghuaRenminGongheguo", " ", "JuminShenfenzheng">>] }

(* ----------------------------------------------------------------------- *)
(* recognizeIdCardFront / recognizeIdCardBack: the retry loop              *)
(* ----------------------------------------------------------------------- *)

maxRetries == 3

\* backoff with a fixed delay
backoffFixed(att) == 2000

\* setTimeout(resolve, attempt * 2000), in milliseconds
backoff(att) == att * 2000

NoError == [isNull |-> TRUE, message |-> <<>>]

UnknownError == <<"unknown error">>

\* const errorMsg = `...: ${result.error_msg} (...: ${result.error_code})`
errorMsg(s, ans) ==
  <<IF s = "front" THEN "OCR recognition failed: " ELSE "OCR back recognition failed: ">>
    \o ans.msg \o <<" (error code: ", ans.code, ")">>

\* result.error_msg && result.error_msg.includes('IAM')
isIamError(ans) ==
  ans.kind = "errcode" /\ ans.msg # <<>> /\ Includes(ans.msg, <<"IAM">>)

\* iamContinue without the test attempt < maxRetries
iamContinueAlways(ans, att) == isIamError(ans)

\* the IAM branch that waits and continues without leaving the try block
iamContinue(ans, att) == isIamError(ans) /\ att < maxRetries

\* lastError = error instanceof Error ? error : new Error(unknown)
caughtError(s, ans) ==
  [isNull  |-> FALSE,
   message |-> IF ans.kind = "errcode" THEN errorMsg(s, ans)
               ELSE IF ans.isError THEN ans.msg
               ELSE UnknownError]

\* a wait after every failed attempt, the last one included
waitAfterEvery(att) == <<att * 2000>>

\* the wait that follows failed attempt att, on the IAM branch and in catch
waitAfter(att) == IF att < maxRetries THEN <<backoff(att)>> ELSE <<>>

\* throw new Error(`... ${maxRetries} ...: ${lastError?.message || unknown}`)
exhaustedError(s, last) ==
  <<IF s = "front" THEN "front recognition failed after retries: "
                   ELSE "back recognition failed after retries: ">>
    \o (IF last.isNull \/ last.message = <<>> THEN UnknownError ELSE last.message)

\* the object built from words_result
frontInfoOf(words) == words

backInfoOf(words, kd) ==
  [issueAuthority   |-> words.issueAuthority,
   validPeriod      |-> words.validPeriod,
   keywordDetection |-> [detected |-> kd.hasKeywords, keywords |-> kd.detectedKeywords]]

NoKeywordDetection ==
  [hasKeywords |-> FALSE, detectedKeywords |-> <<>>, details |-> <<>>]

VARIABLES
  spc,               \* position of the smartRecognizeIdCard call
  rpc,               \* position of the recognizeIdCardFront/Back call in progress
  side,              \* which of the two it is
  attempt,           \* loop variable of the retry loop
  idcardCalls,       \* calls of client.idcard made by the call in progress
  generalCalls,      \* calls of client.generalBasic made by the smart call
  waits,             \* the backoff waits of the call in progress, in order
  lastError,         \* lastError of the call in progress
  answers,           \* what the provider answered to each attempt
  retValue,          \* value returned by the call in progress
  thrown,            \* message of the error thrown by the call in progress
  rKeywordDetection, \* keywordDetection inside recognizeIdCardBack
  keywordDetection,  \* keywordDetection inside smartRecognizeIdCard
  frontInfo, backInfo, frontScore, backScore, recommended, smartThrew

VARIABLES
  bpc,                \* position of the POST /process-files handler
  folderData,         \* the units of the request, in input order
  idx,                \* index of the unit the for loop is at
  results,            \* results
  summary,            \* summary
  response,           \* what res.json / res.status().json sent
  ppc,                \* position of the processFolderFiles call in progress
  savedFiles,         \* savedFiles
  recognitionResults, \* recognitionResults
  frontImagePath, backImagePath, extractedName,
  processResult,      \* value returned by processFolderFiles
  smartLog,           \* the units a smartRecognizeIdCard call was made for
  pdfLog,             \* the units a generateIdCardPdf call was made for
  env,                \* process.env: BAIDU_APP_ID, BAIDU_API_KEY, BAIDU_SECRET_KEY
  tempDisk,           \* the temporary folders and files that exist on disk
  overdue,            \* the units with a call that outlasted the time budget
  reqFiles,           \* req.files of a request that brought no folder structure
  outDisk             \* the PDF files in outputDir, each with the unit that wrote it

VARIABLES
  vpc,                \* position of a single validator call
  vInput,             \* the fields the validator is called with
  verdict             \* the verdict it returned

valVars == <<vpc, vInput, verdict>>

batchVars ==
  <<bpc, folderData, idx, results, summary, response, ppc, savedFiles,
    recognitionResults, frontImagePath, backImagePath, extractedName,
    processResult, smartLog, pdfLog, env, tempDisk, overdue, reqFiles,
    outDisk>>

ocrVars ==
  <<spc, rpc, side, attempt, idcardCalls, generalCalls, waits, lastError,
    answers, retValue, thrown, rKeywordDetection, keywordDetection,
    frontInfo, backInfo, frontScore, backScore, recommended, smartThrew>>

smartVars ==
  <<spc, keywordDetection, frontInfo, backInfo, frontScore, backScore,
    recommended, smartThrew>>

NoInfo == [isNull |-> TRUE]

CallIdle ==
  /\ rpc = "idle" /\ side = "none" /\ attempt = 0 /\ idcardCalls = 0
  /\ waits = <<>> /\ lastError = NoError /\ answers = <<>>
  /\ retValue = NoInfo /\ thrown = <<>>
  /\ rKeywordDetection = NoKeywordDetection

InitOcr ==
  /\ CallIdle
  /\ spc = "tryFront"
  /\ generalCalls = 0
  /\ keywordDetection = NoKeywordDetection
  /\ frontInfo = NoInfo /\ backInfo = NoInfo
  /\ frontScore = 0 /\ backScore = 0
  /\ recommended = "unknown"
  /\ smartThrew = FALSE

\* entry of recognizeIdCardFront / recognizeIdCardBack
BeginCall(s) ==
  /\ rpc = "idle"
  /\ rpc' = (IF s = "back" THEN "detect" ELSE "attempt")
  /\ side' = s
  /\ attempt' = 1
  /\ idcardCalls' = 0
  /\ waits' = <<>>
  /\ lastError' = NoError
  /\ answers' = <<>>
  /\ retValue' = NoInfo
  /\ thrown' = <<>>
  /\ rKeywordDetection' = NoKeywordDetection

\* the caller has consumed the outcome; the call's locals are gone
EndCall ==
  /\ rpc' = "idle" /\ side' = "none" /\ attempt' = 0 /\ idcardCalls' = 0
  /\ waits' = <<>> /\ lastError' = NoError /\ answers' = <<>>
  /\ retValue' = NoInfo /\ thrown' = <<>>
  /\ rKeywordDetection' = NoKeywordDetection

\* recognizeIdCardBack: const keywordDetection = await detectIdCardBackKeywords()
BackDetect ==
  /\ rpc = "detect"
  /\ \E g \in GeneralAnswers : rKeywordDetection' = detectIdCardBackKeywords(g)
  /\ generalCalls' = generalCalls + 1
  /\ rpc' = "attempt"
  /\ UNCHANGED <<side, attempt, idcardCalls, waits, lastError, answers,
                 retValue, thrown>>
  /\ UNCHANGED smartVars

\* one iteration of the for loop: the idcard call, the handling of its
\* answer, the wait and the loop increment
Attempt ==
  /\ rpc = "attempt"
  /\ \E ans \in IdcardAnswers(side) :
       /\ idcardCalls' = idcardCalls + 1
       /\ answers' = Append(answers, ans)
       /\ IF ans.kind = "ok"
          THEN /\ retValue' = (IF side = "front" THEN frontInfoOf(ans.words)
                               ELSE backInfoOf(ans.words, rKeywordDetection))
               /\ rpc' = "returned"
               /\ UNCHANGED <<attempt, waits, lastError, thrown>>
          ELSE LET last == IF iamContinue(ans, attempt) THEN lastError
                           ELSE caughtError(side, ans)
               IN  /\ lastError' = last
                   /\ waits' = waits \o waitAfter(attempt)
                   /\ attempt' = attempt + 1
                   /\ IF attempt + 1 <= maxRetries
                      THEN rpc' = "attempt" /\ UNCHANGED thrown
                      ELSE rpc' = "thrown" /\ thrown' = exhaustedError(side, last)
                   /\ UNCHANGED retValue
  /\ UNCHANGED <<side, rKeywordDetection, generalCalls>>
  /\ UNCHANGED smartVars

(* ----------------------------------------------------------------------- *)
(* smartRecognizeIdCard                                                    *)
(* ----------------------------------------------------------------------- *)

\* the first try block with a failure that is not caught
frontPathAborts(returned, ret) ==
  IF returned
  THEN [threw |-> FALSE, frontInfo |-> ret,
        frontScore |-> validateIdCardFrontInfo(ret).score]
  ELSE [threw |-> TRUE, frontInfo |-> [isNull |-> TRUE], frontScore |-> 0]

\* the first try block, once recognizeIdCardFront has returned or thrown
frontPath(returned, ret) ==
  IF returned
  THEN [threw |-> FALSE, frontInfo |-> ret,
        frontScore |-> validateIdCardFrontInfo(ret).score]
  ELSE [threw |-> FALSE, frontInfo |-> NoInfo, frontScore |-> 0]

\* the info built in the inner catch when keywords were detected
basicBackInfo(kd) ==
  [issueAuthority   |-> <<>>,
   validPeriod      |-> <<>>,
   keywordDetection |-> [detected |-> kd.hasKeywords, keywords |-> kd.detectedKeywords]]

\* backPath whose traditional branch is not covered by the outer try
backPathUncaught(kd, score, returned, ret) ==
  IF kd.hasKeywords
  THEN [threw |-> FALSE, backScore |-> score,
        backInfo |-> IF returned THEN ret ELSE basicBackInfo(kd)]
  ELSE IF returned
  THEN [threw |-> FALSE, backScore |-> validateIdCardBackInfo(ret, kd).score,
        backInfo |-> ret]
  ELSE [threw |-> TRUE, backScore |-> score, backInfo |-> NoInfo]

\* the second try block, once recognizeIdCardBack has returned or thrown;
\* score is backScore as the keyword branch left it
backPath(kd, score, returned, ret) ==
  IF kd.hasKeywords
  THEN [threw |-> FALSE, backScore |-> score,
        backInfo |-> IF returned THEN ret ELSE basicBackInfo(kd)]
  ELSE IF returned
  THEN [threw |-> FALSE, backScore |-> validateIdCardBackInfo(ret, kd).score,
        backInfo |-> ret]
  ELSE [threw |-> FALSE, backScore |-> score, backInfo |-> NoInfo]

\* backScore = 90 when the keyword scan found a marker phrase
keywordScore == 90

\* entry of smartRecognizeIdCard, up to the first provider call
SmartCallFront ==
  /\ spc = "tryFront"
  /\ BeginCall("front")
  /\ spc' = "front"
  /\ UNCHANGED <<generalCalls, keywordDetection, frontInfo, backInfo,
                 frontScore, backScore, recommended, smartThrew>>

\* recognizeIdCardFront is over: score the front, go on to the keyword scan
SmartFrontDone ==
  /\ spc = "front"
  /\ rpc \in {"returned", "thrown"}
  /\ LET out == frontPath(rpc = "returned", retValue)
     IN  /\ frontInfo' = out.frontInfo
         /\ frontScore' = out.frontScore
         /\ smartThrew' = out.threw
         /\ spc' = (IF out.threw THEN "threw" ELSE "scan")
  /\ EndCall
  /\ UNCHANGED <<generalCalls, keywordDetection, backInfo, backScore, recommended>>

\* detectIdCardBackKeywords inside smartRecognizeIdCard, then the entry of
\* recognizeIdCardBack (both branches call it)
SmartScan ==
  /\ spc = "scan"
  /\ \E g \in GeneralAnswers :
       LET kd == detectIdCardBackKeywords(g)
       IN  /\ keywordDetection' = kd
           /\ backScore' = (IF kd.hasKeywords THEN keywordScore ELSE backScore)
  /\ generalCalls' = generalCalls + 1
  /\ BeginCall("back")
  /\ spc' = "back"
  /\ UNCHANGED <<frontInfo, backInfo, frontScore, recommended, smartThrew>>

\* recognizeIdCardBack is over: the rest of smartRecognizeIdCard
SmartBackDone ==
  /\ spc = "back"
  /\ rpc \in {"returned", "thrown"}
  /\ LET out == backPath(keywordDetection, backScore, rpc = "returned", retValue)
     IN  /\ backInfo' = out.backInfo
         /\ backScore' = out.backScore
         /\ smartThrew' = out.threw
         /\ recommended' = (IF out.threw THEN recommended
                            ELSE recommendedSide(frontScore, out.backScore))
         /\ spc' = (IF out.threw THEN "threw" ELSE "done")
  /\ EndCall
  /\ UNCHANGED <<generalCalls, keywordDetection, frontInfo, frontScore>>

(* ----------------------------------------------------------------------- *)
(* One smartRecognizeIdCard call on one image                              *)
(* ----------------------------------------------------------------------- *)

NoSummary == [total |-> 0, success |-> 0, failed |-> 0, failedFolders |-> <<>>]

NoResult ==
  [success |-> FALSE, fileName |-> <<>>, extractedName |-> <<>>,
   frontImagePath |-> <<>>, backImagePath |-> <<>>, error |-> <<>>]

\* the three credentials, all set
EnvSet == [appId |-> <<"id">>, apiKey |-> <<"key">>, secretKey |-> <<"secret">>]

BatchIdle ==
  /\ env = EnvSet /\ tempDisk = {} /\ overdue = {} /\ reqFiles = <<>>
  /\ outDisk = {}
  /\ outDisk = {}
  /\ bpc = "idle" /\ folderData = <<>> /\ idx = 0 /\ results = <<>>
  /\ summary = NoSummary /\ response = <<>> /\ ppc = "idle"
  /\ savedFiles = <<>> /\ recognitionResults = <<>>
  /\ frontImagePath = <<>> /\ backImagePath = <<>> /\ extractedName = <<>>
  /\ processResult = NoResult /\ smartLog = {} /\ pdfLog = {}

NoVerdict == [isValid |-> FALSE, score |-> 0, details |-> <<>>]

NoInput == [side |-> "none"]

ValIdle == vpc = "idle" /\ vInput = NoInput /\ verdict = NoVerdict

vars == <<ocrVars, batchVars, valVars>>

InitSmart == InitOcr /\ BatchIdle /\ ValIdle

NextSmart ==
  \/ (SmartCallFront /\ UNCHANGED <<batchVars, valVars>>)
  \/ (Attempt /\ UNCHANGED <<batchVars, valVars>>)
  \/ (SmartFrontDone /\ UNCHANGED <<batchVars, valVars>>)
  \/ (SmartScan /\ UNCHANGED <<batchVars, valVars>>)
  \/ (BackDetect /\ UNCHANGED <<batchVars, valVars>>)
  \/ (SmartBackDone /\ UNCHANGED <<batchVars, valVars>>)

SpecOcr == InitSmart /\ [][NextSmart]_vars

(* ----------------------------------------------------------------------- *)
(* What smartRecognizeIdCard returns for an image                          *)
(* ----------------------------------------------------------------------- *)

CallReturned(v) == [returned |-> TRUE, value |-> v]

CallThrown == [returned |-> FALSE, value |-> NoInfo]

\* the result of smartRecognizeIdCard when recognizeIdCardFront ended as f,
\* recognizeGeneral answered g and recognizeIdCardBack ended as b
smartResult(f, g, b) ==
  LET kd    == detectIdCardBackKeywords(g)
      front == frontPath(f.returned, f.value)
      back  == backPath(kd, IF kd.hasKeywords THEN keywordScore ELSE 0,
                        b.returned, b.value)
  IN  [frontInfo       |-> front.frontInfo,
       backInfo        |-> back.backInfo,
       frontScore      |-> front.frontScore,
       backScore       |-> back.backScore,
       recommendedSide |-> recommendedSide(front.frontScore, back.backScore)]

GeneralFailed == [ok |-> FALSE, texts |-> <<>>]

GeneralMarker == [ok |-> TRUE, texts |-> <<"JuminShenfenzheng">>]

FullFront ==
  [name |-> <<"Li", "Lei">>, idNumber |-> ValidId, gender |-> <<"nan">>,
   nation |-> <<>>, birthday |-> <<>>, address |-> <<>>]

\* the images of the batch runs: one nothing is recognized on, a front
\* side, a back side
BatchImages ==
  { smartResult(CallThrown, GeneralFailed, CallThrown),
    smartResult(CallReturned(FullFront), GeneralFailed, CallThrown),
    smartResult(CallThrown, GeneralMarker, CallThrown) }

(* ----------------------------------------------------------------------- *)
(* processFolderFiles                                                      *)
(* ----------------------------------------------------------------------- *)

\* folder.files.length < 2 with the threshold off by one
tooFewImagesBelowOne(n) == n < 1

\* folder.files.length < 2, the image-count check of the unit loop
tooFewImages(n) == n < 2

\* the last component of originalname, or image_<i>.jpg when it is empty
baseName(originalname, i) ==
  LET sep == IF Includes(originalname, <<"/">>) THEN "/"
             ELSE IF Includes(originalname, <<"\\">>) THEN "\\"
             ELSE "none"
      cuts == {k \in 1..Len(originalname) : originalname[k] = sep}
      last == IF cuts = {} THEN 0
              ELSE CHOOSE k \in cuts : \A j \in cuts : j <= k
      tail == SubSeq(originalname, last + 1, Len(originalname))
  IN  IF tail = <<>> THEN <<"image_", ToString(i), ".jpg">> ELSE tail

\* path.join(getTempDir(), `batch_${Date.now()}_${folderName}`)
tempFolderPath(folderName) ==
  <<"temp", "/", "batch_", "Date.now()", "_">> \o folderName

\* savedFiles after the saving loop; i counts from 0 in the code
savedPaths(folderName, files) ==
  [i \in 1..Len(files) |->
     tempFolderPath(folderName) \o <<"/">> \o baseName(files[i].originalname, i - 1)]

\* a descending sort that puts equal keys in reverse order
RECURSIVE SortDescTiesReversed(_, _)
SortDescTiesReversed(q, field) ==
  IF q = <<>> THEN <<>>
  ELSE LET rest == SortDescTiesReversed(Tail(q), field)
           x    == Head(q)
           pos  == {k \in 1..Len(rest) : rest[k][field] < x[field]}
           at   == IF pos = {} THEN Len(rest) + 1
                   ELSE CHOOSE k \in pos : \A j \in pos : k <= j
       IN  SubSeq(rest, 1, at - 1) \o <<x>> \o SubSeq(rest, at, Len(rest))

\* Array.prototype.sort with comparator (a, b) => b[field] - a[field]:
\* stable, descending
RECURSIVE SortDesc(_, _)
SortDesc(q, field) ==
  IF q = <<>> THEN <<>>
  ELSE LET rest == SortDesc(Tail(q), field)
           x    == Head(q)
           \* x goes before the first element with a key not above its own
           pos  == {k \in 1..Len(rest) : rest[k][field] <= x[field]}
           at   == IF pos = {} THEN Len(rest) + 1
                   ELSE CHOOSE k \in pos : \A j \in pos : k <= j
       IN  SubSeq(rest, 1, at - 1) \o <<x>> \o SubSeq(rest, at, Len(rest))

\* the choice of the front image, the back image and the name, from the
\* candidate lists to the fallbacks
selectImages(folderName, saved, recog) ==
  LET frontCandidates ==
        SortDesc(SelectSeq(recog, LAMBDA r : r.recommendedType = "front"
                                              \/ r.frontScore > 0), "frontScore")
      backCandidates ==
        SortDesc(SelectSeq(recog, LAMBDA r : r.recommendedType = "back"
                                              \/ r.backScore > 0), "backScore")
      hasFront == Len(frontCandidates) > 0
      bestFront == frontCandidates[1]
      front1 == IF hasFront THEN bestFront.imagePath ELSE <<>>
      gotName == hasFront /\ bestFront.frontInfo # NoInfo
                   /\ bestFront.frontInfo.name # <<>>
      name1 == IF gotName THEN bestFront.frontInfo.name ELSE <<>>
      others == SelectSeq(backCandidates, LAMBDA c : c.imagePath # front1)
      back1 == IF Len(backCandidates) = 0 THEN <<>>
               ELSE IF backCandidates[1].imagePath # front1
                    THEN backCandidates[1].imagePath
               ELSE IF Len(others) > 0 THEN others[1].imagePath
               ELSE <<>>
      front2 == IF front1 = <<>> THEN saved[1] ELSE front1
      name2 == IF front1 = <<>> THEN folderName ELSE name1
      remainingImages == SelectSeq(saved, LAMBDA img : img # front2)
      back2 == IF back1 # <<>> THEN back1
               ELSE IF Len(remainingImages) > 0 THEN remainingImages[1]
               ELSE <<>>
      name3 == IF name2 = <<>> THEN folderName ELSE name2
  IN  [frontImagePath |-> front2,
       backImagePath  |-> back2,
       extractedName  |-> name3,
       idCardInfo     |-> IF gotName THEN bestFront.frontInfo ELSE NoInfo]

Failure(msg) ==
  [success |-> FALSE, fileName |-> <<>>, extractedName |-> <<>>,
   frontImagePath |-> <<>>, backImagePath |-> <<>>, error |-> msg]

noBackMessage(folderName) ==
  <<"folder ">> \o folderName \o <<" has no suitable back image">>

\* const fileName = `${name}_<id card>.pdf` in generateIdCardPdf
pdfFileName(name) == name \o <<"_idcard.pdf">>

\* the answers of generateIdCardPdf: the file was written, or the error it
\* caught
PdfOutcomes ==
  { [success |-> TRUE,  error |-> <<>>],
    [success |-> FALSE, error |-> <<"unsupported image format">>] }

ProcessLocalsIdle ==
  /\ savedFiles' = <<>> /\ recognitionResults' = <<>>
  /\ frontImagePath' = <<>> /\ backImagePath' = <<>> /\ extractedName' = <<>>

\* entry of processFolderFiles up to the first recognition call: the
\* temporary folder is created and the uploads are written into it, one
\* after the other; mkdirSync or one of the writeFileSync calls may throw,
\* which lands in the catch at the end of the function with the folder and
\* the files written so far still on disk
BeginProcess ==
  /\ bpc = "loop" /\ ppc = "idle"
  /\ idx <= Len(folderData)
  /\ ~tooFewImages(Len(folderData[idx].files))
  /\ LET folder == folderData[idx]
         n      == Len(folder.files)
         dir    == tempFolderPath(folder.folderName)
         paths  == savedPaths(folder.folderName, folder.files)
     IN  \E mkdirOk \in BOOLEAN : \E written \in 0..n :
           /\ ~mkdirOk => written = 0
           /\ tempDisk' = tempDisk \cup
                            (IF mkdirOk
                             THEN {dir} \cup {paths[k] : k \in 1..written}
                             ELSE {})
           /\ IF mkdirOk /\ written = n
              THEN /\ savedFiles' = paths
                   /\ ppc' = "classify"
                   /\ UNCHANGED processResult
              ELSE /\ processResult' =
                        Failure(IF mkdirOk
                                THEN <<"ENOSPC: no space left on device, write">>
                                ELSE <<"EACCES: permission denied, mkdir">>)
                   /\ ppc' = "returned"
                   /\ UNCHANGED savedFiles
  /\ UNCHANGED <<bpc, folderData, idx, results, summary, response,
                 recognitionResults, frontImagePath, backImagePath,
                 extractedName, smartLog, pdfLog, env, overdue, reqFiles, outDisk>>

\* the entry pushed for an image smartRecognizeIdCard returned r for
recognized(imagePath, r) ==
  [imagePath |-> imagePath, frontScore |-> r.frontScore, backScore |-> r.backScore,
   frontInfo |-> r.frontInfo, backInfo |-> r.backInfo,
   recommendedType |-> r.recommendedSide]

\* the default entry pushed by the catch of the classification loop
unrecognized(imagePath) ==
  [imagePath |-> imagePath, frontScore |-> 0, backScore |-> 0,
   frontInfo |-> NoInfo, backInfo |-> NoInfo, recommendedType |-> "unknown"]

\* one iteration of the classification loop; after the last image the
\* selection runs, and either the function returns for lack of a back image
\* or generateIdCardPdf is called.  Images is what the images of the run can
\* be recognized as.
ClassifyImage(Images) ==
  /\ ppc = "classify"
  /\ LET i == Len(recognitionResults) + 1
         folderName == folderData[idx].folderName
     IN  \E readOk \in BOOLEAN : \E r \in Images :
           LET entry == IF readOk THEN recognized(savedFiles[i], r)
                        ELSE unrecognized(savedFiles[i])
               recog == Append(recognitionResults, entry)
               sel   == selectImages(folderName, savedFiles, recog)
           IN  /\ recognitionResults' = recog
               /\ smartLog' = (IF readOk THEN smartLog \cup {idx} ELSE smartLog)
               /\ IF Len(recog) < Len(savedFiles)
                  THEN UNCHANGED <<ppc, frontImagePath, backImagePath,
                                   extractedName, processResult, pdfLog>>
                  ELSE /\ frontImagePath' = sel.frontImagePath
                       /\ backImagePath' = sel.backImagePath
                       /\ extractedName' = sel.extractedName
                       /\ IF sel.backImagePath = <<>>
                          THEN /\ processResult' = Failure(noBackMessage(folderName))
                               /\ ppc' = "returned"
                               /\ UNCHANGED pdfLog
                          ELSE /\ ppc' = "compose"
                               /\ pdfLog' = pdfLog \cup {idx}
                               /\ UNCHANGED processResult
  /\ UNCHANGED <<bpc, folderData, idx, results, summary, response, savedFiles,
                 env, tempDisk, overdue, reqFiles, outDisk>>

\* a recognition call or generateIdCardPdf is awaited without a timer: the
\* time allowed for the unit passes while the call is still in flight
BudgetElapsed ==
  /\ ppc \in {"classify", "compose"}
  /\ idx \notin overdue
  /\ overdue' = overdue \cup {idx}
  /\ UNCHANGED <<bpc, folderData, idx, results, summary, response, ppc,
                 savedFiles, recognitionResults, frontImagePath, backImagePath,
                 extractedName, processResult, smartLog, pdfLog, env, tempDisk, reqFiles, outDisk>>

\* generateIdCardPdf has answered: the temporary files are removed and
\* processFolderFiles returns
Compose ==
  /\ ppc = "compose"
  /\ \E pdf \in PdfOutcomes :
       /\ processResult' =
            IF pdf.success
            THEN [success |-> TRUE, fileName |-> pdfFileName(extractedName),
                  extractedName |-> extractedName,
                  frontImagePath |-> frontImagePath,
                  backImagePath |-> backImagePath, error |-> <<>>]
            ELSE Failure(IF pdf.error # <<>> THEN pdf.error
                         ELSE <<"PDF generation failed">>)
       \* fs.writeFileSync(outputPath, pdfBytes) replaces a file of that name
       /\ outDisk' =
            IF pdf.success
            THEN {f \in outDisk : f.fileName # pdfFileName(extractedName)}
                   \cup {[fileName |-> pdfFileName(extractedName), writer |-> idx]}
            ELSE outDisk
  /\ tempDisk' = tempDisk \ ({savedFiles[k] : k \in 1..Len(savedFiles)}
                              \cup {tempFolderPath(folderData[idx].folderName)})
  /\ ppc' = "returned"
  /\ UNCHANGED <<bpc, folderData, idx, results, summary, response, savedFiles,
                 recognitionResults, frontImagePath, backImagePath,
                 extractedName, smartLog, pdfLog, env, overdue, reqFiles>>

(* ----------------------------------------------------------------------- *)
(* POST /process-files: the unit loop                                      *)
(* ----------------------------------------------------------------------- *)

NoIdCard ==
  [name |-> <<>>, idNumber |-> <<>>, frontImagePath |-> <<>>,
   backImagePath |-> <<>>, pdfPath |-> <<>>]

errorResult(folderName, msg) ==
  [folderPath |-> folderName, success |-> FALSE, errorMessage |-> msg,
   idCard |-> NoIdCard]

successResult(folderName, idCard) ==
  [folderPath |-> folderName, success |-> TRUE, errorMessage |-> <<>>,
   idCard |-> idCard]

\* results.unshift(r)
pushResultFirst(rs, r) == <<r>> \o rs

\* results.push(r) left out on the failure paths
pushResultIfSuccess(rs, r) == IF r.success THEN Append(rs, r) ELSE rs

\* results.push(r)
pushResult(rs, r) == Append(rs, r)

\* summary.success++
recordSuccess(sm) == [sm EXCEPT !.success = @ + 1]

\* summary.failed++ without the push to failedFolders
recordFailedNoName(sm, folderName) == [sm EXCEPT !.failed = @ + 1]

\* summary.failed++; summary.failedFolders.push(folderName)
recordFailed(sm, folderName) ==
  [sm EXCEPT !.failed = @ + 1, !.failedFolders = Append(@, folderName)]

\* the message of a unit with fewer than 2 images
insufficientMessage(folderName, n) ==
  <<"folder ">> \o folderName
    \o <<" has too few image files, ", "at least 2 images are needed",
         ", there are only ", ToString(n)>>
    \o (IF n = 0 THEN <<"possibly caused by a file matching failure">> ELSE <<>>)

\* a UTF-16 surrogate without its partner
LoneSurrogate == "uD800"

\* the fragments encodeURIComponent leaves as they are
UriUnreserved == {"unit", "_", ".pdf"} \cup {ToString(i) : i \in 0..9}

\* encodeURIComponent: a URIError for a lone surrogate, otherwise every
\* fragment outside the unreserved set is percent-encoded
encodeURIComponent(q) ==
  IF \E k \in 1..Len(q) : q[k] = LoneSurrogate
  THEN [threw |-> TRUE, value |-> <<>>]
  ELSE [threw |-> FALSE,
        value |-> [k \in 1..Len(q) |->
                     IF q[k] \in UriUnreserved THEN q[k] ELSE "%" \o q[k]]]

\* the for loop moves on; after the last unit the response is sent
Advance(rs, sm) ==
  /\ results' = rs
  /\ summary' = sm
  /\ idx' = idx + 1
  /\ IF idx + 1 <= Len(folderData)
     THEN UNCHANGED <<bpc, response>>
     ELSE /\ bpc' = "done"
          /\ response' = [status |-> 200, success |-> TRUE, error |-> <<>>,
                          hasData |-> TRUE, results |-> rs, summary |-> sm]

\* BaiduOcrService.create with all three credentials empty only
credentialsMissingAll(appId, apiKey, secretKey) ==
  appId = <<>> /\ apiKey = <<>> /\ secretKey = <<>>

\* if (!appId || !apiKey || !secretKey) in BaiduOcrService.create
credentialsMissing(appId, apiKey, secretKey) ==
  appId = <<>> \/ apiKey = <<>> \/ secretKey = <<>>

\* the body sent by the outer catch
errorResponse(status, msg) ==
  [status |-> status, success |-> FALSE, error |-> msg,
   hasData |-> FALSE, results |-> <<>>, summary |-> NoSummary]

\* the handler up to the loop: results and summary are set up and the
\* services are created; getBaiduOcrService throws when a credential is
\* missing, mkdirSync of the output directory may throw; both land in the
\* outer catch
BeginBatch ==
  /\ bpc = "start"
  /\ results' = <<>>
  /\ summary' = [total |-> Len(folderData), success |-> 0, failed |-> 0,
                 failedFolders |-> <<>>]
  /\ \E mkdirOk \in BOOLEAN :
       IF credentialsMissing(env.appId, env.apiKey, env.secretKey)
       THEN /\ bpc' = "failed"
            /\ response' = errorResponse(503, <<"OCR configuration missing">>)
            /\ UNCHANGED idx
       ELSE IF ~mkdirOk
       THEN /\ bpc' = "failed"
            /\ response' = errorResponse(500, <<"batch processing failed">>)
            /\ UNCHANGED idx
       ELSE /\ idx' = 1
            /\ IF Len(folderData) >= 1
               THEN bpc' = "loop" /\ UNCHANGED response
               ELSE /\ bpc' = "done"
                    /\ response' = [status |-> 200, success |-> TRUE, error |-> <<>>,
                                    hasData |-> TRUE, results |-> <<>>,
                                    summary |-> [total |-> 0, success |-> 0,
                                                 failed |-> 0, failedFolders |-> <<>>]]
  /\ UNCHANGED <<folderData, ppc, savedFiles, recognitionResults,
                 frontImagePath, backImagePath, extractedName, processResult,
                 smartLog, pdfLog, env, tempDisk, overdue, reqFiles, outDisk>>

\* a unit with fewer than 2 files is recorded as failed at once
UnitInsufficient ==
  /\ bpc = "loop" /\ ppc = "idle"
  /\ idx <= Len(folderData)
  /\ tooFewImages(Len(folderData[idx].files))
  /\ LET folder == folderData[idx]
     IN  Advance(pushResult(results,
                            errorResult(folder.folderName,
                                        insufficientMessage(folder.folderName,
                                                            Len(folder.files)))),
                 recordFailed(summary, folder.folderName))
  /\ UNCHANGED <<folderData, ppc, savedFiles, recognitionResults,
                 frontImagePath, backImagePath, extractedName, processResult,
                 smartLog, pdfLog, env, tempDisk, overdue, reqFiles, outDisk>>

\* processFolderFiles has returned: its outcome is recorded; a URIError of
\* encodeURIComponent lands in the catch of the loop body
RecordResult ==
  /\ bpc = "loop" /\ ppc = "returned"
  /\ LET folder == folderData[idx]
         url == encodeURIComponent(processResult.fileName)
         idCard == [name |-> processResult.extractedName,
                    idNumber |-> <<>>,
                    frontImagePath |-> processResult.frontImagePath,
                    backImagePath |-> processResult.backImagePath,
                    pdfPath |-> <<"/api/pdf/download/">> \o url.value]
     IN  IF processResult.success /\ ~url.threw
         THEN Advance(pushResult(results, successResult(folder.folderName, idCard)),
                      recordSuccess(summary))
         ELSE IF processResult.success
         THEN Advance(pushResult(results, errorResult(folder.folderName,
                                                      <<"URI malformed">>)),
                      recordFailed(summary, folder.folderName))
         ELSE Advance(pushResult(results, errorResult(folder.folderName,
                                                      processResult.error)),
                      recordFailed(summary, folder.folderName))
  /\ ppc' = "idle"
  /\ processResult' = NoResult
  /\ ProcessLocalsIdle
  /\ UNCHANGED <<folderData, smartLog, pdfLog, env, tempDisk, overdue, reqFiles, outDisk>>

(* ----------------------------------------------------------------------- *)
(* One batch request                                                       *)
(* ----------------------------------------------------------------------- *)

unitName(i, broken) ==
  IF broken /\ i = 1 THEN <<"unit", LoneSurrogate>> ELSE <<"unit", ToString(i)>>

\* a unit of n uploaded files named <unit>/<k>.jpg; with nested the second
\* file comes from a subfolder and has the base name of the first:
\* <unit>/sub/1.jpg
unitOf(name, n, nested) ==
  [folderName |-> name,
   files |-> [k \in 1..n |->
                [originalname |->
                   IF nested /\ k = 2 THEN name \o <<"/", "sub", "/", "1", ".jpg">>
                   ELSE name \o <<"/", ToString(k), ".jpg">>]]]

\* the shapes of a unit: the number of files and whether one is nested
UnitShapes ==
  {sh \in [n : 0..MaxFiles, nested : BOOLEAN] : sh.nested => sh.n >= 2}

\* the values of process.env: each credential is set or empty
Envs == [appId : {<<>>, <<"id">>}, apiKey : {<<>>, <<"key">>},
         secretKey : {<<>>, <<"secret">>}]

OcrIdle ==
  /\ CallIdle
  /\ spc = "idle"
  /\ generalCalls = 0
  /\ keywordDetection = NoKeywordDetection
  /\ frontInfo = NoInfo /\ backInfo = NoInfo
  /\ frontScore = 0 /\ backScore = 0
  /\ recommended = "unknown"
  /\ smartThrew = FALSE

\* the request after grouping: up to MaxUnits units of up to MaxFiles files
Init ==
  /\ OcrIdle
  /\ ValIdle
  /\ \E len \in 0..MaxUnits : \E shapes \in [1..len -> UnitShapes] :
       \E broken \in BOOLEAN :
         folderData = [i \in 1..len |->
                         unitOf(unitName(i, broken), shapes[i].n, shapes[i].nested)]
  /\ env \in Envs
  /\ tempDisk = {}
  /\ overdue = {}
  /\ reqFiles = <<>>
  /\ outDisk = {}
  /\ bpc = "start"
  /\ idx = 0
  /\ results = <<>>
  /\ summary = NoSummary
  /\ response = <<>>
  /\ ppc = "idle"
  /\ savedFiles = <<>> /\ recognitionResults = <<>>
  /\ frontImagePath = <<>> /\ backImagePath = <<>> /\ extractedName = <<>>
  /\ processResult = NoResult
  /\ smartLog = {} /\ pdfLog = {}

Next ==
  \/ (BeginBatch /\ UNCHANGED <<ocrVars, valVars>>)
  \/ (UnitInsufficient /\ UNCHANGED <<ocrVars, valVars>>)
  \/ (BeginProcess /\ UNCHANGED <<ocrVars, valVars>>)
  \/ (ClassifyImage(BatchImages) /\ UNCHANGED <<ocrVars, valVars>>)
  \/ (Compose /\ UNCHANGED <<ocrVars, valVars>>)
  \/ (RecordResult /\ UNCHANGED <<ocrVars, valVars>>)

Spec == Init /\ [][Next]_vars

\* the request with the passing of time observed
NextTimed ==
  \/ Next
  \/ (BudgetElapsed /\ UNCHANGED <<ocrVars, valVars>>)

SpecTimed == Init /\ [][NextTimed]_vars

(* ----------------------------------------------------------------------- *)
(* One unit of up to MaxImages images                                      *)
(* ----------------------------------------------------------------------- *)

\* a second front side, read in full
OtherFront ==
  [name |-> <<"Han", "Meimei">>, idNumber |-> ValidId, gender |-> <<"nv">>,
   nation |-> <<"han">>, birthday |-> <<"1", "9", "9", "0">>,
   address |-> <<"addr">>]

\* the images of the one-unit runs: those of the batch runs, a front side
\* read in full, and an image with front fields and a marker phrase
SelectImages ==
  BatchImages \cup
    { smartResult(CallReturned(OtherFront), GeneralFailed, CallThrown),
      smartResult(CallReturned(FullFront), GeneralMarker, CallThrown) }

\* the request after grouping: one unit of up to MaxImages files
InitSelect ==
  /\ OcrIdle
  /\ ValIdle
  /\ \E n \in 0..MaxImages :
       folderData = <<unitOf(unitName(1, FALSE), n, FALSE)>>
  /\ env = EnvSet
  /\ tempDisk = {}
  /\ overdue = {}
  /\ reqFiles = <<>>
  /\ outDisk = {}
  /\ bpc = "start"
  /\ idx = 0
  /\ results = <<>>
  /\ summary = NoSummary
  /\ response = <<>>
  /\ ppc = "idle"
  /\ savedFiles = <<>> /\ recognitionResults = <<>>
  /\ frontImagePath = <<>> /\ backImagePath = <<>> /\ extractedName = <<>>
  /\ processResult = NoResult
  /\ smartLog = {} /\ pdfLog = {}

NextSelect ==
  \/ (BeginBatch /\ UNCHANGED <<ocrVars, valVars>>)
  \/ (UnitInsufficient /\ UNCHANGED <<ocrVars, valVars>>)
  \/ (BeginProcess /\ UNCHANGED <<ocrVars, valVars>>)
  \/ (ClassifyImage(SelectImages) /\ UNCHANGED <<ocrVars, valVars>>)
  \/ (Compose /\ UNCHANGED <<ocrVars, valVars>>)
  \/ (RecordResult /\ UNCHANGED <<ocrVars, valVars>>)

SpecSelect == InitSelect /\ [][NextSelect]_vars

(* ----------------------------------------------------------------------- *)
(* POST /process-files: grouping by file name                              *)
(* ----------------------------------------------------------------------- *)

\* the part of s before the first occurrence of the separator sep
BeforeFirst(s, sep) ==
  LET at == {k \in 1..Len(s) : s[k] = sep}
      first == CHOOSE k \in at : \A j \in at : k <= j
  IN  SubSeq(s, 1, first - 1)

\* the folder name taken from originalname: split('/')[0] when the name
\* holds a '/', else split('\\')[0] when it holds a '\', else 'default'
folderNameOf(originalname) ==
  IF Includes(originalname, <<"/">>) THEN BeforeFirst(originalname, "/")
  ELSE IF Includes(originalname, <<"\\">>) THEN BeforeFirst(originalname, "\\")
  ELSE <<"default">>

\* fileGroups, a Map filled in the order of files, as the array of its
\* entries
groupFiles(files) ==
  LET nameAt(i) == folderNameOf(files[i].originalname)
      isFirst(i) == \A j \in 1..(i - 1) : nameAt(j) # nameAt(i)
      firsts == SelectSeq([i \in 1..Len(files) |-> i], isFirst)
  IN  [u \in 1..Len(firsts) |->
         [folderName |-> nameAt(firsts[u]),
          files |-> SelectSeq(files,
                              LAMBDA f : folderNameOf(f.originalname)
                                           = nameAt(firsts[u]))]]

\* the declared paths of the uploads
UploadNames ==
  { <<"a", "/", "1", ".jpg">>, <<"a", "/", "sub", "/", "2", ".jpg">>,
    <<"b", "\\", "1", ".jpg">>, <<"a", "\\", "b", "/", "c", ".jpg">>,
    <<"default", "/", "1", ".jpg">>, <<"x", ".jpg">> }

\* req.files: the i-th upload arrives in the field files_<i>
Uploads(names) ==
  [i \in 1..Len(names) |->
     [originalname |-> names[i], fieldname |-> <<"files_", ToString(i - 1)>>]]

InitGroup ==
  /\ OcrIdle
  /\ ValIdle
  /\ env = EnvSet /\ tempDisk = {} /\ overdue = {} /\ outDisk = {}
  /\ \E n \in 0..MaxUploads : \E names \in [1..n -> UploadNames] :
       reqFiles = Uploads(names)
  /\ bpc = "group"
  /\ folderData = <<>>
  /\ idx = 0
  /\ results = <<>>
  /\ summary = NoSummary
  /\ response = <<>>
  /\ ppc = "idle"
  /\ savedFiles = <<>> /\ recognitionResults = <<>>
  /\ frontImagePath = <<>> /\ backImagePath = <<>> /\ extractedName = <<>>
  /\ processResult = NoResult
  /\ smartLog = {} /\ pdfLog = {}

\* if (!files || files.length === 0) return res.status(400)
RejectEmpty ==
  /\ bpc = "group"
  /\ Len(reqFiles) = 0
  /\ bpc' = "failed"
  /\ response' = errorResponse(400, <<"please upload files">>)
  /\ UNCHANGED <<folderData, idx, results, summary, ppc, savedFiles,
                 recognitionResults, frontImagePath, backImagePath,
                 extractedName, processResult, smartLog, pdfLog, env,
                 tempDisk, overdue, reqFiles, outDisk>>

\* the else branch of if (folderStructure): the files are grouped by the
\* folder name in their declared path
GroupFiles ==
  /\ bpc = "group"
  /\ Len(reqFiles) > 0
  /\ folderData' = groupFiles(reqFiles)
  /\ bpc' = "start"
  /\ UNCHANGED <<idx, results, summary, response, ppc, savedFiles,
                 recognitionResults, frontImagePath, backImagePath,
                 extractedName, processResult, smartLog, pdfLog, env,
                 tempDisk, overdue, reqFiles, outDisk>>

NextGroup ==
  \/ (RejectEmpty /\ UNCHANGED <<ocrVars, valVars>>)
  \/ (GroupFiles /\ UNCHANGED <<ocrVars, valVars>>)

SpecGroup == InitGroup /\ [][NextGroup]_vars

(* ----------------------------------------------------------------------- *)
(* One call of a field validator                                           *)
(* ----------------------------------------------------------------------- *)

\* front fields as recognizeIdCardFront builds them from words_result: every
\* field is the recognized text or the empty string
FrontFieldsSet ==
  [name     : {<<>>, <<"L">>, <<" ", "L">>, <<"Li", "Lei">>},
   idNumber : {<<>>, ValidId, Rep("1", 17) \o <<"x">>,
               <<"1", " ">> \o Rep("1", 16) \o <<"7">>,
               Rep("1", 17), Rep("1", 17) \o <<"A">>},
   gender   : {<<>>, <<"nan">>, <<"nv">>, <<"M">>},
   nation   : {<<>>, <<" ">>, <<"han">>},
   birthday : {<<>>, <<"1", "9", "9", "0">>},
   address  : {<<>>, <<"addr">>}]

\* back fields as recognizeIdCardBack builds them from words_result
BackFieldsSet ==
  [issueAuthority : {<<>>, <<" ">>, <<"X", "bureau">>, <<"X", "gong", "an", "ju">>},
   validPeriod    : {<<>>, <<" ">>, <<"2", "0", "3", "0">>, <<"chang", "qi">>,
                     <<"2","0","2","0",".","0","1",".","0","1","-",
                       "2","0","3","0",".","0","1",".","0","1">>,
                     <<"2","0","2","0","0","1","0","1","emdash","chang","qi">>}]

\* the keyword detections detectIdCardBackKeywords can return
KeywordDetections == {detectIdCardBackKeywords(g) : g \in GeneralAnswers}

InitValidate ==
  /\ OcrIdle
  /\ BatchIdle
  /\ vpc = "input"
  /\ vInput \in
       {[side |-> "front", fields |-> f, kd |-> NoKeywordDetection] :
          f \in FrontFieldsSet}
       \cup {[side |-> "back", fields |-> b, kd |-> kd] :
                b \in BackFieldsSet, kd \in KeywordDetections}
  /\ verdict = NoVerdict

\* const frontValidation = this.validateIdCardFrontInfo(frontInfo)
ValidateFront ==
  /\ vpc = "input"
  /\ vInput.side = "front"
  /\ verdict' = validateIdCardFrontInfo(vInput.fields)
  /\ vpc' = "done"
  /\ UNCHANGED vInput

\* const backValidation = this.validateIdCardBackInfo(backInfo, keywordDetection)
ValidateBack ==
  /\ vpc = "input"
  /\ vInput.side = "back"
  /\ verdict' = validateIdCardBackInfo(vInput.fields, vInput.kd)
  /\ vpc' = "done"
  /\ UNCHANGED vInput

NextValidate ==
  \/ (ValidateFront /\ UNCHANGED <<ocrVars, batchVars>>)
  \/ (ValidateBack /\ UNCHANGED <<ocrVars, batchVars>>)

SpecValidate == InitValidate /\ [][NextValidate]_vars


(* ----------------------------------------------------------------------- *)
(* Properties of the retry loop and of smartRecognizeIdCard                *)
(* ----------------------------------------------------------------------- *)

RECURSIVE SumSeq(_)
SumSeq(q) == IF q = <<>> THEN 0 ELSE Head(q) + SumSeq(Tail(q))

IsInvalidInput(ans) == ans.kind = "errcode" /\ ~Includes(ans.msg, <<"IAM">>)

IsIam(ans) == ans.kind = "errcode" /\ Includes(ans.msg, <<"IAM">>)

\* C5: one call of recognizeIdCardFront / recognizeIdCardBack makes at most 3
\* idcard calls; it returns the result of the first attempt that succeeds,
\* and once all 3 attempts have failed it throws an error whose message
\* carries the message of the last failure.
C5_AtMostThreeAttempts ==
  /\ idcardCalls = Len(answers)
  /\ idcardCalls <= 3
  /\ \A i \in 1..Len(answers) :
       answers[i].kind = "ok" => (i = Len(answers) /\ rpc = "returned")
  /\ rpc = "returned" =>
       /\ answers[Len(answers)].kind = "ok"
       /\ side = "front" => retValue = answers[Len(answers)].words
       /\ side = "back" =>
            /\ retValue.issueAuthority = answers[Len(answers)].words.issueAuthority
            /\ retValue.validPeriod = answers[Len(answers)].words.validPeriod
  /\ rpc = "thrown" =>
       /\ Len(answers) = 3
       /\ \A i \in 1..3 : answers[i].kind # "ok"
       /\ Includes(thrown, answers[3].msg)
       /\ answers[3].kind = "throw" /\ ~answers[3].isError =>
            Includes(thrown, UnknownError)

\* all three attempts failed, the last one with an IAM error code after a
\* different failure
C5_Witness ==
  /\ rpc = "thrown"
  /\ idcardCalls = 3
  /\ IsInvalidInput(answers[2])
  /\ IsIam(answers[3])

\* C6: the wait after failed attempt k (k in 1..2) is k x 2 seconds and
\* every retry is preceded by one; IAM errors on attempts 1 and 2 and a
\* success on attempt 3 give the successful result after exactly 3 provider
\* calls and 2 s + 4 s of backoff.
C6_LinearBackoff ==
  /\ \A k \in 1..Len(waits) : k \in 1..2 /\ waits[k] = k * 2 * 1000
  /\ rpc = "attempt" => Len(waits) = attempt - 1 /\ Len(answers) = attempt - 1
  /\ (/\ Len(answers) = 3
      /\ IsIam(answers[1]) /\ IsIam(answers[2])
      /\ answers[3].kind = "ok")
       => /\ rpc = "returned"
          /\ idcardCalls = 3
          /\ waits = <<2000, 4000>>
          /\ SumSeq(waits) = 6000

C6_Witness ==
  /\ Len(answers) = 3
  /\ IsIam(answers[1]) /\ IsIam(answers[2])
  /\ answers[3].kind = "ok"
  /\ rpc = "returned"

\* C7: an attempt answered with a permanently-invalid-input error (an error
\* code whose message is not an IAM error) makes the call fail immediately:
\* it is the last provider call and no backoff wait follows it.
C7_InvalidFailsImmediately ==
  \A i \in 1..Len(answers) :
    IsInvalidInput(answers[i]) =>
      /\ i = Len(answers)
      /\ Len(waits) < i
      /\ rpc = "thrown"

\* C8: smartRecognizeIdCard never throws: whatever fails, it ends by
\* returning frontScore, backScore and recommendedSide.
C8_SmartNeverThrows ==
  /\ ~smartThrew
  /\ spc # "threw"
  /\ spc = "done" =>
       /\ frontScore \in 0..100
       /\ backScore \in 0..130
       /\ recommended \in {"front", "back", "unknown"}

\* front extraction, keyword scan and back extraction have all failed and
\* the call has returned
C8_Witness ==
  /\ spc = "done"
  /\ frontInfo = NoInfo
  /\ ~keywordDetection.hasKeywords
  /\ keywordDetection.details = << <<"fail", "keywordScan">> >>
  /\ backInfo = NoInfo

\* C9: recommendedSide is front if frontScore > backScore and
\* frontScore >= 60; otherwise back if backScore > frontScore and
\* backScore >= 70; otherwise front if the scores are equal and positive;
\* otherwise unknown.
C9_RecommendedSide ==
  spc = "done" =>
    recommended =
      CASE frontScore > backScore /\ frontScore >= 60 -> "front"
        [] ~(frontScore > backScore /\ frontScore >= 60)
             /\ backScore > frontScore /\ backScore >= 70 -> "back"
        [] frontScore = backScore /\ frontScore > 0 -> "front"
        [] OTHER -> "unknown"

\* equal positive scores
C9_Witness ==
  /\ spc = "done"
  /\ frontScore = backScore
  /\ frontScore > 0
  /\ recommended = "front"

(* ----------------------------------------------------------------------- *)
(* Properties of the unit loop                                             *)
(* ----------------------------------------------------------------------- *)

FailedIndexes == {i \in 1..Len(results) : ~results[i].success}

RECURSIVE FailedNames(_)
FailedNames(rs) ==
  IF rs = <<>> THEN <<>>
  ELSE (IF Head(rs).success THEN <<>> ELSE <<Head(rs).folderPath>>)
         \o FailedNames(Tail(rs))

\* C1: once the loop is over, success + failed = total = number of units
\* and failedFolders has exactly failed entries.
C1_SummaryAddsUp ==
  bpc = "done" =>
    /\ summary.success + summary.failed = summary.total
    /\ summary.total = Len(folderData)
    /\ Len(summary.failedFolders) = summary.failed
    /\ response.summary = summary

\* a finished batch with one unit that succeeded and one that failed
C1_Witness ==
  /\ bpc = "done"
  /\ Len(folderData) = 2
  /\ summary.success = 1
  /\ summary.failed = 1

\* C2: every step that ends a unit appends exactly one result record and
\* increments exactly one of success / failed by one, whatever happened to
\* the unit, no other step touches results or summary, and the loop ends
\* only after the last unit.
C2_OneOutcomePerUnit ==
  [][ bpc = "loop" =>
        /\ idx' # idx =>
             /\ idx' = idx + 1
             /\ Len(results') = Len(results) + 1
             /\ SubSeq(results', 1, Len(results)) = results
             /\ results'[Len(results')].folderPath = folderData[idx].folderName
             /\ \/ /\ results'[Len(results')].success
                   /\ summary'.success = summary.success + 1
                   /\ summary'.failed = summary.failed
                \/ /\ ~results'[Len(results')].success
                   /\ summary'.failed = summary.failed + 1
                   /\ summary'.success = summary.success
        /\ idx' = idx => UNCHANGED <<results, summary>>
        /\ bpc' # "loop" => idx' = Len(folderData) + 1
    ]_vars

\* the first unit ended in the catch of the loop body and the second unit
\* is being processed
C2_Witness ==
  /\ bpc = "loop"
  /\ idx = 2
  /\ ppc = "classify"
  /\ Len(results) = 1
  /\ results[1].errorMessage = <<"URI malformed">>

\* C3: the image passed to generateIdCardPdf as front and the image passed
\* as back are never the same image.
C3_FrontBackDistinct ==
  ppc = "compose" => frontImagePath # backImagePath

\* C4: a unit with fewer than 2 images is recorded as failed without any
\* recognition or composition call made for it; its message holds the
\* image count and the requirement of at least 2 images, for 0 images also
\* the note on file matching; failed counts it exactly once.
C4_TooFewImages ==
  /\ \A i \in 1..Len(results) :
       LET n == Len(folderData[i].files)
           msg == results[i].errorMessage
       IN  n < 2 =>
             /\ ~results[i].success
             /\ Includes(msg, <<ToString(n)>>)
             /\ Includes(msg, <<"at least 2 images are needed">>)
             /\ n = 0 => Includes(msg, <<"possibly caused by a file matching failure">>)
             /\ i \notin smartLog
             /\ i \notin pdfLog
  /\ bpc \in {"loop", "done"} => summary.failed = Cardinality(FailedIndexes)

\* a unit without images and a unit with one image have been recorded
C4_Witness ==
  /\ Len(results) = 2
  /\ Len(folderData[1].files) = 0
  /\ Len(folderData[2].files) = 1
  /\ summary.failed = 2

\* C10: results[i] belongs to unit i, a unit is worked on only after the
\* outcomes of all units before it are recorded, and failedFolders lists
\* the failed units in input order.
C10_InputOrder ==
  /\ \A i \in 1..Len(results) : results[i].folderPath = folderData[i].folderName
  /\ bpc = "loop" => Len(results) = idx - 1
  /\ ppc # "idle" => bpc = "loop" /\ idx \in 1..Len(folderData)
  /\ \A u \in smartLog \cup pdfLog : u <= Len(results) + 1
  /\ bpc \in {"loop", "done"} => summary.failedFolders = FailedNames(results)

\* two units, the first failed, the second succeeded
C10_Witness ==
  /\ bpc = "done"
  /\ Len(results) = 2
  /\ ~results[1].success
  /\ results[2].success
  /\ summary.failedFolders = <<folderData[1].folderName>>

(* ----------------------------------------------------------------------- *)
(* Properties of the field validators                                      *)
(* ----------------------------------------------------------------------- *)

FrontDone == vpc = "done" /\ vInput.side = "front"

BackDone == vpc = "done" /\ vInput.side = "back"

GenderLabels == {<<"nan">>, <<"nv">>}

\* 17 digits followed by a digit, X or x
IsIdPattern(q) ==
  /\ Len(q) = 18
  /\ \A i \in 1..17 : q[i] \in Digits
  /\ q[18] \in Digits \cup {"X", "x"}

NonBlank(q) == \E i \in 1..Len(q) : q[i] \notin Whitespace

\* the name without leading and trailing whitespace has at least 2 characters
TrimmedAtLeastTwo(q) ==
  \E i, j \in 1..Len(q) : i < j /\ q[i] \notin Whitespace /\ q[j] \notin Whitespace

Pts(cond, n) == IF cond THEN n ELSE 0

\* C11, as stated: a front verdict for a name of length >= 2, an id number of
\* 17 digits and a digit or X/x, and a valid gender label has score >= 85
\* and isValid, whatever nation, birthday and address are.
C11_RequiredFieldsGive85 ==
  (/\ FrontDone
   /\ Len(vInput.fields.name) >= 2
   /\ IsIdPattern(vInput.fields.idNumber)
   /\ vInput.fields.gender \in GenderLabels)
    => verdict.score >= 85 /\ verdict.isValid

\* C11, amended: a front verdict for a name with at least 2 characters
\* between leading and trailing whitespace, an id number of 17 digits and a
\* digit or X/x, and a valid gender label has score >= 75 and isValid,
\* whatever nation, birthday and address are.
C11_RequiredFieldsGive75 ==
  (/\ FrontDone
   /\ TrimmedAtLeastTwo(vInput.fields.name)
   /\ IsIdPattern(vInput.fields.idNumber)
   /\ vInput.fields.gender \in GenderLabels)
    => verdict.score >= 75 /\ verdict.isValid

\* the three required fields are good and the three optional ones empty
C11_Witness ==
  /\ FrontDone
  /\ vInput.fields.name = <<"Li", "Lei">>
  /\ IsIdPattern(vInput.fields.idNumber)
  /\ vInput.fields.gender = <<"nv">>
  /\ vInput.fields.nation = <<>>
  /\ vInput.fields.birthday = <<>>
  /\ vInput.fields.address = <<>>
  /\ verdict.score = 75

\* the valid periods of the inputs that match one of the date-range patterns
ConformingPeriods ==
  { <<"chang", "qi">>,
    <<"2","0","2","0",".","0","1",".","0","1","-",
      "2","0","3","0",".","0","1",".","0","1">>,
    <<"2","0","2","0","0","1","0","1","emdash","chang","qi">> }

\* the issuing authorities of the inputs that hold a known authority name
KnownAuthorities == { <<"X", "gong", "an", "ju">> }

\* C12: a back verdict has score = (80 if a marker phrase was detected) +
\* (30 for a non-blank issuing authority holding a known authority name, 10
\* for another non-blank one, 0 for a blank one) + (20 for a non-blank
\* valid period matching a date-range pattern, 10 for another non-blank one,
\* 0 for a blank one); isValid is true exactly when score >= 80 with a
\* marker or score >= 70 without; with a marker score >= 80 and isValid
\* hold whatever authority and period are.
C12_BackScore ==
  BackDone =>
    LET marker == vInput.kd.hasKeywords
        auth   == vInput.fields.issueAuthority
        period == vInput.fields.validPeriod
        authPts   == IF ~NonBlank(auth) THEN 0
                     ELSE IF auth \in KnownAuthorities THEN 30 ELSE 10
        periodPts == IF ~NonBlank(period) THEN 0
                     ELSE IF period \in ConformingPeriods THEN 20 ELSE 10
    IN  /\ verdict.score = Pts(marker, 80) + authPts + periodPts
        /\ verdict.isValid <=> (IF marker THEN verdict.score >= 80
                                          ELSE verdict.score >= 70)
        /\ marker => verdict.score >= 80 /\ verdict.isValid

\* a marker phrase with a missing authority and a blank period: 80 points,
\* valid
C12_Witness ==
  /\ BackDone
  /\ vInput.kd.hasKeywords
  /\ vInput.fields.issueAuthority = <<>>
  /\ vInput.fields.validPeriod = <<" ">>
  /\ verdict.score = 80
  /\ verdict.isValid

\* C13: the score of every verdict of validateIdCardFrontInfo and
\* validateIdCardBackInfo is an integer in 0..100.
C13_ScoreIn0To100 ==
  vpc = "done" => verdict.score \in 0..100

\* the characters of q that are not whitespace
WithoutWs(q) == SelectSeq(q, LAMBDA c : c \notin Whitespace)

\* C19, as stated: score = 30 [name of length >= 2] + 30 [idNumber without
\* whitespace is 17 digits and one of 0-9/X/x] + 15 [gender is a gender
\* label] + 10 [nation non-empty] + 10 [birthday non-empty] + 5 [address
\* non-empty], at most 100, and isValid exactly when score >= 60.
C19_FrontScore ==
  FrontDone =>
    LET f == vInput.fields
    IN  /\ verdict.score =
              Pts(Len(f.name) >= 2, 30)
              + Pts(IsIdPattern(WithoutWs(f.idNumber)), 30)
              + Pts(f.gender \in GenderLabels, 15)
              + Pts(f.nation # <<>>, 10)
              + Pts(f.birthday # <<>>, 10)
              + Pts(f.address # <<>>, 5)
        /\ verdict.score <= 100
        /\ verdict.isValid <=> verdict.score >= 60

\* C19, amended: as C19_FrontScore with the name measured after trimming
\* whitespace and nation, birthday and address counted when they hold a
\* character that is not whitespace.
C19_FrontScoreTrimmed ==
  FrontDone =>
    LET f == vInput.fields
    IN  /\ verdict.score =
              Pts(TrimmedAtLeastTwo(f.name), 30)
              + Pts(IsIdPattern(WithoutWs(f.idNumber)), 30)
              + Pts(f.gender \in GenderLabels, 15)
              + Pts(NonBlank(f.nation), 10)
              + Pts(NonBlank(f.birthday), 10)
              + Pts(NonBlank(f.address), 5)
        /\ verdict.score <= 100
        /\ verdict.isValid <=> verdict.score >= 60

\* an id number written with a space and a lower-case x would both count;
\* here the one with the space, next to a blank nation
C19_Witness ==
  /\ FrontDone
  /\ vInput.fields.name = <<"Li", "Lei">>
  /\ Includes(vInput.fields.idNumber, <<" ">>)
  /\ vInput.fields.gender = <<"nan">>
  /\ vInput.fields.nation = <<" ">>
  /\ vInput.fields.birthday # <<>>
  /\ vInput.fields.address # <<>>
  /\ verdict.score = 90

LineTags == {"pass", "fail", "partial"}

\* the lines of details about the field named what
LinesAbout(what) == SelectSeq(verdict.details, LAMBDA l : l[2] = what)

\* C20: details holds exactly one line per examined field, in the same field
\* order for every input, each tagged pass, fail or partial: 6 lines for a
\* front verdict (name, idNumber, gender, nation, birthday, address), one
\* line each for issuing authority and valid period in a back verdict.
C20_OneLinePerField ==
  /\ FrontDone =>
       /\ Len(verdict.details) = 6
       /\ [i \in 1..6 |-> verdict.details[i][2]]
            = <<"name", "idNumber", "gender", "nation", "birthday", "address">>
       /\ \A i \in 1..6 : verdict.details[i][1] \in LineTags
  /\ BackDone =>
       /\ Len(LinesAbout("issueAuthority")) = 1
       /\ Len(LinesAbout("validPeriod")) = 1
       /\ \A i \in 1..Len(verdict.details) : verdict.details[i][1] \in LineTags
       /\ verdict.details[Len(verdict.details) - 1][2] = "issueAuthority"
       /\ verdict.details[Len(verdict.details)][2] = "validPeriod"

(* ----------------------------------------------------------------------- *)
(* Properties of processFolderFiles and of the request as a whole          *)
(* ----------------------------------------------------------------------- *)

\* every image of the unit has been tried and nothing was recognized on any
AllRecognitionFailed ==
  /\ Len(savedFiles) >= 2
  /\ Len(recognitionResults) = Len(savedFiles)
  /\ \A k \in 1..Len(recognitionResults) :
       /\ recognitionResults[k].frontScore = 0
       /\ recognitionResults[k].backScore = 0
       /\ recognitionResults[k].frontInfo = NoInfo
       /\ recognitionResults[k].backInfo = NoInfo

\* C14: for a unit of n >= 2 uploaded images on which every recognition
\* call fails, processFolderFiles reaches generateIdCardPdf with the first
\* image as front, the second image (another image than the first) as back
\* and the folder name as extractedName, and whenever generateIdCardPdf
\* succeeds the unit is recorded as a success.
C14_AllFailedFallback ==
  [][ (bpc = "loop" /\ AllRecognitionFailed) =>
        /\ ppc = "compose" =>
             /\ frontImagePath = savedFiles[1]
             /\ backImagePath = savedFiles[2]
             /\ savedFiles[2] # savedFiles[1]
             /\ extractedName = folderData[idx].folderName
        /\ ppc = "returned" => idx \in pdfLog
        /\ (ppc = "returned" /\ processResult.success) =>
             results'[Len(results')].success
    ]_vars

\* C15: when processFolderFiles has returned, on every path, the temporary
\* folder and the temporary files it created are deleted.
C15_TempFilesDeleted ==
  ppc = "returned" => tempDisk = {}

\* C16: with one of the three credentials empty the request fails as a
\* whole before any unit is attempted: no result is recorded, no counter is
\* incremented, no recognition or composition call is made, and the caller
\* gets an error response without results and summary.
C16_MissingCredentialsAbort ==
  (/\ bpc # "start"
   /\ (env.appId = <<>> \/ env.apiKey = <<>> \/ env.secretKey = <<>>))
    => /\ bpc = "failed"
       /\ results = <<>>
       /\ summary.success = 0 /\ summary.failed = 0
       /\ summary.failedFolders = <<>>
       /\ smartLog = {} /\ pdfLog = {}
       /\ ppc = "idle" /\ tempDisk = {}
       /\ response # <<>>
       /\ ~response.success
       /\ response.status >= 400
       /\ ~response.hasData

\* a request of two units of two images with only the API key missing
C16_Witness ==
  /\ bpc = "failed"
  /\ env.appId # <<>> /\ env.apiKey = <<>> /\ env.secretKey # <<>>
  /\ Len(folderData) = 2
  /\ \A i \in 1..2 : Len(folderData[i].files) = 2

\* C17: a unit with a recognition or composition call that did not return
\* within the time budget is recorded as failed with a timeout reason (the
\* other units being recorded as usual).
C17_TimeoutRecorded ==
  \A i \in 1..Len(results) :
    i \in overdue =>
      /\ ~results[i].success
      /\ \E k \in 1..Len(results[i].errorMessage) :
           results[i].errorMessage[k] \in {"timeout", "timed out"}

\* C18: the errorMessage of every failed result holds the unit's name and a
\* reason.
C18_FailureNamesUnit ==
  \A i \in 1..Len(results) :
    ~results[i].success =>
      /\ Includes(results[i].errorMessage, folderData[i].folderName)
      /\ Len(results[i].errorMessage) > Len(folderData[i].folderName)

(* ----------------------------------------------------------------------- *)
(* More properties of smartRecognizeIdCard and of the retry loop           *)
(* ----------------------------------------------------------------------- *)

\* the step that ends the front try block after recognizeIdCardFront threw
FrontFailedStep == spc = "front" /\ rpc = "thrown"

\* the step that ends the back try block after recognizeIdCardBack threw
BackFailedStep == spc = "back" /\ rpc = "thrown"

\* the parts of C21 about the front side and about the independence of the
\* two sides
C21_FrontAndIndependence ==
  /\ FrontFailedStep => frontScore' = 0 /\ spc' = "scan" /\ backScore' = backScore
  /\ (spc = "front" /\ rpc = "returned") =>
       /\ frontScore' = validateIdCardFrontInfo(retValue).score
       /\ spc' = "scan" /\ backScore' = backScore
  /\ spc = "scan" => spc' = "back" /\ frontScore' = frontScore
  /\ spc = "back" => frontScore' = frontScore
  /\ (spc = "back" /\ rpc = "returned") =>
       /\ spc' = "done"
       /\ backScore' = IF keywordDetection.hasKeywords THEN 90
                        ELSE validateIdCardBackInfo(retValue, keywordDetection).score

\* C21, as stated: a failed front extraction gives frontScore 0 and the back
\* side is still attempted; a failed back extraction gives backScore 0
\* whatever the keyword scan returned; the other side's score is not
\* affected.
C21_FailedSideScoresZero ==
  [][ /\ C21_FrontAndIndependence
      /\ BackFailedStep => backScore' = 0 /\ spc' = "done"
    ]_vars

\* C21, amended: a failed front extraction gives frontScore 0 and the back
\* side is still attempted; a failed back extraction gives backScore 0 when
\* the keyword scan found no marker phrase and leaves backScore at 90 when
\* it found one; the other side's score is not affected.
C21_FailedSideKeepsKeywordScore ==
  [][ /\ C21_FrontAndIndependence
      /\ BackFailedStep =>
           /\ backScore' = (IF keywordDetection.hasKeywords THEN 90 ELSE 0)
           /\ spc' = "done"
    ]_vars

\* front extraction failed, the keyword scan found a marker phrase, back
\* extraction failed: the call has returned 0 and 90
C21_Witness ==
  /\ spc = "done"
  /\ frontInfo = NoInfo /\ frontScore = 0
  /\ keywordDetection.hasKeywords
  /\ backInfo = basicBackInfo(keywordDetection)
  /\ backScore = 90
  /\ recommended = "back"

\* C25: one smartRecognizeIdCard call issues the keyword scan
\* (recognizeGeneral) at most once: recognizeIdCardBack does not scan again
\* after the scan of smartRecognizeIdCard.
C25_OneKeywordScan ==
  generalCalls <= 1

\* C27: without a detected marker phrase the back verdict has score <= 50
\* and is not valid, whatever issuing authority and valid period are;
\* smartRecognizeIdCard returns back only for an image the keyword scan
\* found a marker phrase in and whose frontScore is below the keyword score
\* 90.
C27_BackNeedsMarker ==
  spc = "done" =>
    /\ (~keywordDetection.hasKeywords /\ backInfo # NoInfo) =>
         /\ backScore = validateIdCardBackInfo(backInfo, keywordDetection).score
         /\ backScore <= 50
         /\ ~validateIdCardBackInfo(backInfo, keywordDetection).isValid
    /\ ~keywordDetection.hasKeywords => backScore <= 50
    /\ recommended = "back" =>
         /\ keywordDetection.hasKeywords
         /\ backScore = 90
         /\ frontScore < 90

\* no marker phrase, the best issuing authority and valid period, and no
\* front: 50 points and not back
C27_Witness ==
  /\ spc = "done"
  /\ ~keywordDetection.hasKeywords
  /\ backInfo # NoInfo
  /\ backScore = 50
  /\ frontScore = 0
  /\ recommended = "unknown"

\* a marker phrase and a front side of 90 points or more: not back
C27_WitnessFront90 ==
  /\ spc = "done"
  /\ keywordDetection.hasKeywords
  /\ frontScore >= 90
  /\ recommended = "front"

\* C28: in the retry loop each failed attempt k < 3 is followed by exactly
\* one wait of k x 2 seconds, whichever way it failed, and the third failed
\* attempt by none; a call that fails on all attempts waits 6 seconds in
\* total.
C28_OneWaitPerFailedAttempt ==
  LET failedAttempts == {i \in 1..Len(answers) : answers[i].kind # "ok"}
      followed == {i \in failedAttempts : i < 3}
  IN  /\ Len(waits) = Cardinality(followed)
      /\ \A i \in followed : waits[i] = i * 2 * 1000
      /\ SumSeq(waits) <= 6000
      /\ rpc = "thrown" => Cardinality(failedAttempts) = 3 /\ SumSeq(waits) = 6000

\* a call that failed in the three ways: an error code that is not IAM, a
\* rejected promise, an IAM error code
C28_Witness ==
  /\ rpc = "thrown"
  /\ Len(answers) = 3
  /\ IsInvalidInput(answers[1])
  /\ answers[2].kind = "throw"
  /\ IsIam(answers[3])
  /\ waits = <<2000, 4000>>

(* ----------------------------------------------------------------------- *)
(* Properties of the grouping by file name                                 *)
(* ----------------------------------------------------------------------- *)

Separators == {"/", "\\"}

\* the part of a declared path before its first separator, 'default' for a
\* path without separator
FirstComponent(path) ==
  LET at == {k \in 1..Len(path) : path[k] \in Separators}
  IN  IF at = {} THEN <<"default">>
      ELSE SubSeq(path, 1, (CHOOSE k \in at : \A j \in at : k <= j) - 1)

\* the units that hold the upload f
UnitsOf(f) ==
  {u \in 1..Len(folderData) :
     \E k \in 1..Len(folderData[u].files) : folderData[u].files[k] = f}

\* C26: without a folder structure every upload is put into the unit named
\* by the part of its declared path before the first separator ('/' or
\* '\', whichever comes first), or into 'default' when the path has no
\* separator; every upload is in exactly one unit, once, and the units are
\* in the order of their first upload.
C26_GroupedByFirstComponent ==
  (bpc = "start" /\ reqFiles # <<>>) =>
    /\ \A i \in 1..Len(reqFiles) :
         /\ Cardinality(UnitsOf(reqFiles[i])) = 1
         /\ \A u \in UnitsOf(reqFiles[i]) :
              /\ folderData[u].folderName = FirstComponent(reqFiles[i].originalname)
              /\ Len(SelectSeq(folderData[u].files,
                               LAMBDA f : f = reqFiles[i])) = 1
    /\ \A u \in 1..Len(folderData) :
         /\ Len(folderData[u].files) > 0
         /\ \A k \in 1..Len(folderData[u].files) :
              \E i \in 1..Len(reqFiles) : reqFiles[i] = folderData[u].files[k]
    /\ \A u, v \in 1..Len(folderData) :
         u < v =>
           \E i \in 1..Len(reqFiles) :
             /\ reqFiles[i] = folderData[u].files[1]
             /\ \A j \in 1..Len(reqFiles) :
                  reqFiles[j] = folderData[v].files[1] => i < j

(* ----------------------------------------------------------------------- *)
(* Properties of the choice of the front and the back image                *)
(* ----------------------------------------------------------------------- *)

\* the selection of the unit under way has run
Selected ==
  /\ ppc \in {"compose", "returned"}
  /\ Len(savedFiles) > 0
  /\ Len(recognitionResults) = Len(savedFiles)

\* the images that qualify as front, as positions in unit order
FrontQualified ==
  {i \in 1..Len(recognitionResults) :
     \/ recognitionResults[i].recommendedType = "front"
     \/ recognitionResults[i].frontScore > 0}

\* the images that qualify as back, as positions in unit order
BackQualified ==
  {i \in 1..Len(recognitionResults) :
     \/ recognitionResults[i].recommendedType = "back"
     \/ recognitionResults[i].backScore > 0}

\* C22: the front is the image with the highest frontScore among the images
\* with recommendedSide front or frontScore > 0, the earliest in unit order
\* among those with the highest score; if no image qualifies, the front is
\* the first image of the unit and extractedName is the folder name.
C22_FrontChoice ==
  Selected =>
    IF FrontQualified = {}
    THEN /\ frontImagePath = savedFiles[1]
         /\ extractedName = folderData[idx].folderName
    ELSE \E i \in FrontQualified :
           /\ frontImagePath = recognitionResults[i].imagePath
           /\ \A j \in FrontQualified :
                /\ recognitionResults[j].frontScore <= recognitionResults[i].frontScore
                /\ recognitionResults[j].frontScore = recognitionResults[i].frontScore
                     => i <= j

\* a unit of MaxImages images where a later image has the highest front
\* score and shares it with a still later one
C22_Witness ==
  /\ Selected
  /\ Len(recognitionResults) = 3
  /\ recognitionResults[1].frontScore = 75
  /\ recognitionResults[2].frontScore = 100
  /\ recognitionResults[3].frontScore = 100
  /\ frontImagePath = savedFiles[2]

\* no image qualifies as front: the first image and the folder name
C22_WitnessFallback ==
  /\ Selected
  /\ FrontQualified = {}
  /\ frontImagePath = savedFiles[1]
  /\ extractedName = folderData[idx].folderName

\* C23: the back is the image with the highest backScore among the images
\* with recommendedSide back or backScore > 0 that are not the image finally
\* chosen as front (a front chosen by the first-image fallback included);
\* if none remains, the back is the first image in unit order that is not
\* the chosen front.
C23_BackChoice ==
  Selected =>
    LET pool == {i \in BackQualified :
                   recognitionResults[i].imagePath # frontImagePath}
        rest == SelectSeq(savedFiles, LAMBDA img : img # frontImagePath)
    IN  IF pool # {}
        THEN \E i \in pool :
               /\ backImagePath = recognitionResults[i].imagePath
               /\ \A j \in pool :
                    recognitionResults[j].backScore <= recognitionResults[i].backScore
        ELSE rest # <<>> => backImagePath = rest[1]

\* the fields of the outcome of a unit whose back image passed validation
PlainOutcomeFields ==
  {"success", "fileName", "extractedName", "frontImagePath", "backImagePath",
   "error"}

\* C24: when the back image of a unit is picked by the fallback (no image
\* qualified as back), the outcome returned for the unit carries a marker
\* of lowered confidence, a field the outcome of a validated pick has not.
C24_FallbackBackMarked ==
  (Selected /\ ppc = "returned" /\ processResult.success /\ BackQualified = {})
    => ~(DOMAIN processResult \subseteq PlainOutcomeFields)

(* ----------------------------------------------------------------------- *)
(* Properties of the files written for a batch                             *)
(* ----------------------------------------------------------------------- *)

\* C29: two different units of a batch that both end with success refer to
\* different artifacts, and the PDF written for a unit recorded as success
\* is still the file of that unit, not replaced by a later unit, also when
\* both units yield the same extractedName.
C29_ArtifactsKept ==
  /\ \A i, j \in 1..Len(results) :
       (i < j /\ results[i].success /\ results[j].success)
         => results[i].idCard.pdfPath # results[j].idCard.pdfPath
  /\ \A i \in 1..Len(results) :
       results[i].success => \E f \in outDisk : f.writer = i

\* C30: every upload of a unit is stored under its own temporary path, so
\* the candidate list holds pairwise distinct images, and a unit of at
\* least 2 uploads never fails for lack of a second image.
C30_DistinctTempPaths ==
  /\ \A i, j \in 1..Len(savedFiles) : i # j => savedFiles[i] # savedFiles[j]
  /\ \A i, j \in 1..Len(recognitionResults) :
       i # j => recognitionResults[i].imagePath # recognitionResults[j].imagePath
  /\ \A i \in 1..Len(results) :
       Len(folderData[i].files) >= 2
         => results[i].errorMessage # noBackMessage(folderData[i].folderName)

====
